---- MODULE Spec2Model ----
(***************************************************************************)
(* csv2md: a CSV file is read (read_csv), formatted as a Markdown pipe     *)
(* table (escape_markdown_chars, convert_to_markdown_table) and written    *)
(* (save_markdown); convert runs the three stages and main maps the        *)
(* result to the exit status.                                              *)
(*                                                                         *)
(* A text is a sequence of one-character strings.  A Row is a sequence of  *)
(* texts and a Table a sequence of Rows.                                   *)
(*                                                                         *)
(* Three specifications:                                                   *)
(*   SpecEscape  escape_markdown_chars applied twice to a bounded text     *)
(*   SpecTable   convert_to_markdown_table, one step per loop iteration    *)
(*   Spec        main -> convert -> read_csv / save_markdown, with the     *)
(*               file system and the failures it can produce               *)
(***************************************************************************)
EXTENDS Integers, Sequences, FiniteSets, TLC

VARIABLES
    pc,              \* position of the program
    text,            \* SpecEscape: argument of escape_markdown_chars
    once,            \* SpecEscape: escape_markdown_chars(text)
    twice,           \* SpecEscape: escape_markdown_chars(once)
    rows,            \* the Table (list of lists), shared with the caller
    rows0,           \* the caller's Table as it was at the call (history)
    markdown_lines,  \* convert_to_markdown_table: lines built so far
    row,             \* convert_to_markdown_table: loop variable after line 100
    idx,             \* convert_to_markdown_table: index of the next row
    ret,             \* convert_to_markdown_table: returned text
    argv,            \* sys.argv
    file,            \* the input file: whether it exists, what each encoding decodes it to
    outDir,          \* whether the output directory exists
    outFile,         \* the file at the output path: [exists, content]
    outFile0,        \* the file at the output path before the run (history)
    encoding,        \* read_csv: encoding of the open file
    delimiter,       \* read_csv: delimiter the Sniffer detected
    trace,           \* read_csv: operations on the input file so far (history)
    utf8Raised,      \* read_csv: exception the UTF-8 attempt raised (history)
    readOutcome,     \* read_csv: "none", "returned" or "raised" (history)
    exc,             \* exception that reached convert
    raisedIn,        \* stage that raised exc (history)
    propagated,      \* whether an exception left convert
    markdown_content,\* convert: text to write
    output_filename, \* convert: name of the output file
    result,          \* convert's return value
    printed,         \* convert's last message
    exitCode         \* status given to sys.exit

escVars == <<text, once, twice>>
tblVars == <<rows0, markdown_lines, row, idx, ret>>
envVars == <<argv, file, outFile0>>
readVars == <<encoding, delimiter, trace, utf8Raised, readOutcome>>
convVars == <<exc, raisedIn, propagated, markdown_content, output_filename,
              result, printed, exitCode>>
pipeVars == <<envVars, outDir, outFile, readVars, convVars>>

vars == <<pc, escVars, rows, tblVars, pipeVars>>

(***************************************************************************)
(* Bounds                                                                  *)
(***************************************************************************)
MaxTextLen == 4
MaxRows == 3
MaxCells == 3

\* Characters texts are drawn from: a letter, the pipe, the backslash and
\* the whitespace characters the code treats specially.
Chars == {"a", "|", "\\", " ", "\t", "\n", "\r"}

\* Cells the Tables of SpecTable are drawn from: empty, plain, a pipe
\* between spaces, surrounding and embedded whitespace with CR LF.
CellPool == { <<>>,
              <<"a">>,
              <<"x", " ", "|", " ", "y">>,
              <<" ", "b", "\r", "\n", "c">> }

Texts(n) == UNION { [1..k -> Chars] : k \in 0..n }

(***************************************************************************)
(* Text primitives of Python used by the code                              *)
(***************************************************************************)
\* Characters matched by \s in re.sub and removed by str.strip.
IsSpace(c) == c \in {" ", "\t", "\n", "\r", "\f"}

\* str.replace(c, by) for a one-character pattern c.
RECURSIVE Replace(_, _, _)
Replace(t, c, by) ==
    IF t = <<>> THEN <<>>
    ELSE (IF Head(t) = c THEN by ELSE <<Head(t)>>) \o Replace(Tail(t), c, by)

RECURSIVE LStrip(_)
LStrip(t) ==
    IF t # <<>> /\ IsSpace(Head(t)) THEN LStrip(Tail(t)) ELSE t

RECURSIVE RStrip(_)
RStrip(t) ==
    IF t # <<>> /\ IsSpace(t[Len(t)]) THEN RStrip(SubSeq(t, 1, Len(t) - 1)) ELSE t

\* str.strip()
Strip(t) == RStrip(LStrip(t))

\* re.sub(r'\s+', ' ', t): every maximal run of whitespace becomes one space.
RECURSIVE CollapseWhitespace(_)
CollapseWhitespace(t) ==
    IF t = <<>> THEN <<>>
    ELSE IF IsSpace(Head(t)) THEN <<" ">> \o CollapseWhitespace(LStrip(Tail(t)))
    ELSE <<Head(t)>> \o CollapseWhitespace(Tail(t))

\* sep.join(parts)
RECURSIVE Join(_, _)
Join(parts, sep) ==
    IF parts = <<>> THEN <<>>
    ELSE IF Len(parts) = 1 THEN parts[1]
    ELSE parts[1] \o sep \o Join(Tail(parts), sep)

(***************************************************************************)
(* escape_markdown_chars                                                   *)
(***************************************************************************)
\* A variant that escapes the backslash as well as the pipe.
ReplacePipeAndBackslash(t) ==
    Replace(Replace(t, "\\", <<"\\", "\\">>), "|", <<"\\", "|">>)

\* text.replace('|', '\\|')
ReplacePipe(t) == Replace(t, "|", <<"\\", "|">>)

\* text.replace('\n', ' ').replace('\r', ' ')
ReplaceNewlines(t) == Replace(Replace(t, "\n", <<" ">>), "\r", <<" ">>)

\* The cells of a Table are str already (csv.reader yields lists of str), so
\* the coercion of lines 59-60 never applies.
EscapeMarkdownChars(t) ==
    Strip(CollapseWhitespace(ReplaceNewlines(ReplacePipe(t))))

(***************************************************************************)
(* convert_to_markdown_table: the pieces                                   *)
(***************************************************************************)
EscapeRow(r) == [i \in 1..Len(r) |-> EscapeMarkdownChars(r[i])]

\* "| " + " | ".join(cells) + " |"
Line(cells) == <<"|", " ">> \o Join(cells, <<" ", "|", " ">>) \o <<" ", "|">>

\* ["---"] * len(header)
Separator(header) == [i \in 1..Len(header) |-> <<"-", "-", "-">>]

\* A variant that pads at the front.
RECURSIVE PadFront(_, _)
PadFront(r, n) == IF Len(r) < n THEN PadFront(<<<<>>>> \o r, n) ELSE r

\* while len(row) < header_length: row.append("")
RECURSIVE PadRow(_, _)
PadRow(r, n) == IF Len(r) < n THEN PadRow(Append(r, <<>>), n) ELSE r

\* A variant that keeps the row whole.
KeepAll(r, n) == r

\* row[:header_length]
Truncate(r, n) == SubSeq(r, 1, IF Len(r) < n THEN Len(r) ELSE n)

\* A variant that ends the text with a newline.
JoinLinesTrailing(lines) ==
    IF lines = <<>> THEN <<>> ELSE Join(lines, <<"\n">>) \o <<"\n">>

\* "\n".join(markdown_lines)
JoinLines(lines) == Join(lines, <<"\n">>)

(***************************************************************************)
(* convert_to_markdown_table as one call                                   *)
(***************************************************************************)
\* lines 92-103 for one row: the emitted line
DataLine(r, n) == Line(EscapeRow(Truncate(PadRow(r, n), n)))

\* markdown_lines at line 105, for a non-empty Table
MarkdownLines(t) ==
    << Line(EscapeRow(t[1])), Line(Separator(t[1])) >>
    \o [j \in 1..(Len(t) - 1) |-> DataLine(t[j + 1], Len(t[1]))]

\* The returned text.
ConvertToMarkdownTable(t) ==
    IF t = <<>> THEN <<>> ELSE JoinLines(MarkdownLines(t))

\* The caller's Table after the call: row.append has padded the short rows.
RowsAfterConvert(t) ==
    [j \in 1..Len(t) |-> IF j = 1 THEN t[1] ELSE PadRow(t[j], Len(t[1]))]

(***************************************************************************)
(* Python operations the claims are stated with                            *)
(***************************************************************************)
IsPrefix(p, t) == Len(p) <= Len(t) /\ SubSeq(t, 1, Len(p)) = p
IsSuffix(s, t) == Len(s) <= Len(t) /\ SubSeq(t, Len(t) - Len(s) + 1, Len(t)) = s
Drop(t, n) == SubSeq(t, n + 1, Len(t))

\* t.split(sep): left to right, non-overlapping; the empty text gives [""].
RECURSIVE SplitFrom(_, _, _)
SplitFrom(t, sep, cur) ==
    IF Len(t) < Len(sep) THEN <<cur \o t>>
    ELSE IF IsPrefix(sep, t) THEN <<cur>> \o SplitFrom(Drop(t, Len(sep)), sep, <<>>)
    ELSE SplitFrom(Tail(t), sep, Append(cur, Head(t)))

Split(t, sep) == SplitFrom(t, sep, <<>>)

\* The fields of an emitted line: the leading "| " and the trailing " |"
\* removed, the rest split on " | ".
Fields(line) ==
    LET a == IF IsPrefix(<<"|", " ">>, line) THEN Drop(line, 2) ELSE line
        b == IF IsSuffix(<<" ", "|">>, a) THEN SubSeq(a, 1, Len(a) - 2) ELSE a
    IN  Split(b, <<" ", "|", " ">>)

(***************************************************************************)
(* SpecEscape: escape_markdown_chars applied to a text, then to its result *)
(***************************************************************************)
IdleEscape == text = <<>> /\ once = <<>> /\ twice = <<>>
IdleTable == rows = <<>> /\ rows0 = <<>> /\ markdown_lines = <<>>
             /\ row = <<>> /\ idx = 0 /\ ret = <<>>

IdlePipeline ==
    /\ argv = <<>> /\ file = [exists |-> FALSE] /\ outDir = FALSE
    /\ outFile = [exists |-> FALSE, content |-> <<>>] /\ outFile0 = outFile
    /\ encoding = "none" /\ delimiter = "none" /\ trace = <<>>
    /\ utf8Raised = "none" /\ readOutcome = "none"
    /\ exc = "none" /\ raisedIn = "none" /\ propagated = FALSE
    /\ markdown_content = <<>> /\ output_filename = "None"
    /\ result = "None" /\ printed = "none" /\ exitCode = -1

InitEscape ==
    /\ pc = "esc_start"
    /\ text \in Texts(MaxTextLen)
    /\ once = <<>> /\ twice = <<>>
    /\ IdleTable /\ IdlePipeline

EscapeOnce ==
    /\ pc = "esc_start"
    /\ once' = EscapeMarkdownChars(text)
    /\ pc' = "esc_once"
    /\ UNCHANGED <<text, twice, rows, tblVars, pipeVars>>

EscapeTwice ==
    /\ pc = "esc_once"
    /\ twice' = EscapeMarkdownChars(once)
    /\ pc' = "esc_done"
    /\ UNCHANGED <<text, once, rows, tblVars, pipeVars>>

NextEscape == EscapeOnce \/ EscapeTwice

SpecEscape == InitEscape /\ [][NextEscape]_vars

(***************************************************************************)
(* SpecTable: convert_to_markdown_table(rows)                              *)
(***************************************************************************)
RECURSIVE Sum(_)
Sum(s) == IF s = <<>> THEN 0 ELSE Head(s) + Sum(Tail(s))

\* The row widths of the Tables considered: at most MaxRows rows holding at
\* most MaxCells cells together.
Shapes ==
    UNION { { s \in [1..n -> 0..MaxCells] : Sum(s) <= MaxCells } : n \in 0..MaxRows }

RECURSIVE Slice(_, _)
Slice(flat, shape) ==
    IF shape = <<>> THEN <<>>
    ELSE <<SubSeq(flat, 1, Head(shape))>>
         \o Slice(Drop(flat, Head(shape)), Tail(shape))

InitTable ==
    /\ pc = "tbl_start"
    /\ \E shape \in Shapes :
         \E flat \in [1..Sum(shape) -> CellPool] :
            rows = Slice(flat, shape)
    /\ rows0 = rows
    /\ markdown_lines = <<>> /\ row = <<>> /\ idx = 0 /\ ret = <<>>
    /\ IdleEscape /\ IdlePipeline

\* if not rows: return ""
TableEmpty ==
    /\ pc = "tbl_start"
    /\ rows = <<>>
    /\ ret' = <<>>
    /\ pc' = "tbl_done"
    /\ UNCHANGED <<escVars, pipeVars, rows, rows0, markdown_lines, row, idx>>

\* lines 79-89: the header line and the separator line
TableHeader ==
    /\ pc = "tbl_start"
    /\ rows # <<>>
    /\ markdown_lines' = << Line(EscapeRow(rows[1])), Line(Separator(rows[1])) >>
    /\ idx' = 2
    /\ pc' = "tbl_loop"
    /\ UNCHANGED <<escVars, pipeVars, rows, rows0, row, ret>>

\* lines 92-103: one iteration of "for row in rows[1:]".  rows[1:] holds the
\* same list objects as rows, so row.append changes rows[idx] in place;
\* row[:header_length] is a new list.
TableDataRow ==
    /\ pc = "tbl_loop"
    /\ idx <= Len(rows)
    /\ LET header_length == Len(rows[1])
           padded == PadRow(rows[idx], header_length)
           cut == Truncate(padded, header_length)
       IN  /\ rows' = [rows EXCEPT ![idx] = padded]
           /\ row' = cut
           /\ markdown_lines' = Append(markdown_lines, Line(EscapeRow(cut)))
    /\ idx' = idx + 1
    /\ UNCHANGED <<escVars, pipeVars, pc, rows0, ret>>

\* line 105
TableReturn ==
    /\ pc = "tbl_loop"
    /\ idx > Len(rows)
    /\ ret' = JoinLines(markdown_lines)
    /\ pc' = "tbl_done"
    /\ UNCHANGED <<escVars, pipeVars, rows, rows0, markdown_lines, row, idx>>

NextTable == TableEmpty \/ TableHeader \/ TableDataRow \/ TableReturn

SpecTable == InitTable /\ [][NextTable]_vars

(***************************************************************************)
(* Spec: main -> convert -> read_csv, convert_to_markdown_table,           *)
(* save_markdown                                                           *)
(*                                                                         *)
(* The input file is described by what each encoding makes of its bytes:   *)
(*   err    where decoding raises UnicodeDecodeError: "none", "sample"     *)
(*          (in file.read(1024)) or "rest" (in list(reader))               *)
(*   delim  what csv.Sniffer().sniff(sample) detects, "none" when it       *)
(*          raises csv.Error("Could not determine delimiter")              *)
(*   table  the rows csv.reader yields under that delimiter                *)
(* A file of zero bytes decodes to the empty text under both encodings;    *)
(* the Sniffer raises csv.Error on the empty sample.  A file the Sniffer   *)
(* accepts has content, so the reader yields at least one row.             *)
(***************************************************************************)
SampleSize == 1024

TableA == << << <<"a">>, <<"b">> >>, << <<"1">>, <<"2">> >>, << <<"3">> >> >>
TableB == << << <<"h">> >>, << <<"x", "|", "y">>, <<"z">> >> >>
TableC == << << <<"k", "\n", "v">>, <<>> >> >>
InputTables == {TableA, TableB, TableC}

Delimiters == {",", ";"}

DecodedViews ==
    [err : {"none", "rest"}, delim : Delimiters \cup {"none"}, table : InputTables]
    \cup { [err |-> "sample", delim |-> "none", table |-> <<>>] }

EmptyView == [err |-> "none", delim |-> "none", table |-> <<>>]

InputFiles ==
    { [exists |-> FALSE, utf8 |-> EmptyView, sjis |-> EmptyView],
      [exists |-> TRUE, utf8 |-> EmptyView, sjis |-> EmptyView] }
    \cup [exists : {TRUE}, utf8 : DecodedViews, sjis : DecodedViews]

View(enc) == IF enc = "utf-8" THEN file.utf8 ELSE file.sjis

Absent == [exists |-> FALSE, content |-> <<>>]
OldContent == <<"o", "l", "d">>

\* Path(csv_filename).stem + ".md"
StemMd(name) == IF name = "data.csv" THEN "data.md" ELSE "None"

Init ==
    /\ pc = "main"
    /\ argv \in { <<"csv2md.py">>, <<"csv2md.py", "data.csv">>,
                  <<"csv2md.py", "data.csv", "out.md">> }
    /\ file \in InputFiles
    /\ outDir \in BOOLEAN
    /\ outFile \in { Absent, [exists |-> TRUE, content |-> OldContent] }
    /\ outDir = FALSE => outFile = Absent
    /\ outFile0 = outFile
    /\ rows = <<>>
    /\ encoding = "none" /\ delimiter = "none" /\ trace = <<>>
    /\ utf8Raised = "none" /\ readOutcome = "none"
    /\ exc = "none" /\ raisedIn = "none" /\ propagated = FALSE
    /\ markdown_content = <<>> /\ output_filename = "None"
    /\ result = "None" /\ printed = "none" /\ exitCode = -1
    /\ IdleEscape
    /\ rows0 = <<>> /\ markdown_lines = <<>> /\ row = <<>> /\ idx = 0 /\ ret = <<>>

\* A handler that catches every exception.
CatchesAny(e) == TRUE

\* line 44: except UnicodeDecodeError
CaughtByReadCsv(e) == e = "UnicodeDecodeError"

\* A handler for the file system's errors only.
CatchesOSErrorOnly(e) == e \in {"FileNotFoundError", "OSError"}

\* line 147: except Exception.  FileNotFoundError and OSError, csv.Error and
\* UnicodeDecodeError are all subclasses of Exception.
CaughtByConvert(e) ==
    e \in {"FileNotFoundError", "OSError", "csv.Error", "UnicodeDecodeError"}

\* A variant that reports success whatever convert returned.
ExitStatusZero(r) == 0

\* lines 167-170: a Path is truthy, None is not
ExitStatus(r) == IF r # "None" THEN 0 ELSE 1

\* An exception e raised in stage at reaches convert's try block: the
\* handler of line 147 takes it, or it leaves convert and the interpreter
\* ends the process with a traceback and status 1.
ReachConvert(e, at) ==
    /\ exc' = e
    /\ raisedIn' = at
    /\ IF CaughtByConvert(e)
       THEN pc' = "except" /\ UNCHANGED <<propagated, exitCode>>
       ELSE pc' = "exited" /\ propagated' = TRUE /\ exitCode' = 1
    /\ UNCHANGED <<markdown_content, output_filename, result, printed>>

\* An exception e raised inside an attempt of read_csv: the UTF-8 attempt's
\* handler (line 44) starts the Shift-JIS attempt; anything else leaves
\* read_csv.
RaiseInAttempt(e) ==
    IF encoding = "utf-8" /\ CaughtByReadCsv(e)
    THEN /\ utf8Raised' = e
         /\ encoding' = "shift_jis"
         /\ pc' = "open"
         /\ UNCHANGED <<readOutcome, convVars>>
    ELSE /\ utf8Raised' = (IF encoding = "utf-8" THEN e ELSE utf8Raised)
         /\ readOutcome' = "raised"
         /\ ReachConvert(e, "read_csv")
         /\ UNCHANGED encoding

\* lines 154-159
Main_Usage ==
    /\ pc = "main"
    /\ Len(argv) < 2
    /\ exitCode' = 1
    /\ pc' = "exited"
    /\ UNCHANGED <<escVars, rows, tblVars, envVars, outDir, outFile, readVars,
                   exc, raisedIn, propagated, markdown_content, output_filename,
                   result, printed>>

\* lines 161-165, 121-124
Main_Convert ==
    /\ pc = "main"
    /\ Len(argv) >= 2
    /\ pc' = "read_csv"
    /\ UNCHANGED <<escVars, rows, tblVars, pipeVars>>

\* lines 29-30
ReadCsv_NotFound ==
    /\ pc = "read_csv"
    /\ ~file.exists
    /\ readOutcome' = "raised"
    /\ ReachConvert("FileNotFoundError", "read_csv")
    /\ UNCHANGED <<escVars, rows, tblVars, envVars, outDir, outFile,
                   encoding, delimiter, trace, utf8Raised>>

\* lines 32-33
ReadCsv_Begin ==
    /\ pc = "read_csv"
    /\ file.exists
    /\ rows' = <<>>
    /\ encoding' = "utf-8"
    /\ pc' = "open"
    /\ UNCHANGED <<escVars, tblVars, envVars, outDir, outFile,
                   delimiter, trace, utf8Raised, readOutcome, convVars>>

\* lines 34, 46: open(csv_path, 'r', encoding=..., newline='')
ReadCsv_Open ==
    /\ pc = "open"
    /\ trace' = Append(trace, <<encoding, "open">>)
    /\ pc' = "sample"
    /\ UNCHANGED <<escVars, rows, tblVars, envVars, outDir, outFile,
                   encoding, delimiter, utf8Raised, readOutcome, convVars>>

\* lines 36, 47: sample = file.read(1024)
ReadCsv_Sample ==
    /\ pc = "sample"
    /\ trace' = Append(trace, <<encoding, "read", SampleSize>>)
    /\ IF View(encoding).err = "sample"
       THEN RaiseInAttempt("UnicodeDecodeError")
       ELSE pc' = "sniff" /\ UNCHANGED <<encoding, utf8Raised, readOutcome, convVars>>
    /\ UNCHANGED <<escVars, rows, tblVars, envVars, outDir, outFile, delimiter>>

\* lines 37-39, 48-50: file.seek(0); delimiter = sniffer.sniff(sample).delimiter
ReadCsv_Sniff ==
    /\ pc = "sniff"
    /\ trace' = trace \o << <<encoding, "seek", 0>>, <<encoding, "sniff">> >>
    /\ IF View(encoding).delim = "none"
       THEN RaiseInAttempt("csv.Error") /\ UNCHANGED delimiter
       ELSE /\ delimiter' = View(encoding).delim
            /\ pc' = "parse"
            /\ UNCHANGED <<encoding, utf8Raised, readOutcome, convVars>>
    /\ UNCHANGED <<escVars, rows, tblVars, envVars, outDir, outFile>>

\* lines 41-42, 52-53, 55: rows = list(csv.reader(file, delimiter)); rows
\* is assigned only when list() has read the whole file.
ReadCsv_Parse ==
    /\ pc = "parse"
    /\ trace' = Append(trace, <<encoding, "parse", delimiter>>)
    /\ IF View(encoding).err = "rest"
       THEN RaiseInAttempt("UnicodeDecodeError") /\ UNCHANGED <<rows, rows0>>
       ELSE /\ rows' = View(encoding).table
            /\ rows0' = View(encoding).table
            /\ readOutcome' = "returned"
            /\ pc' = "loaded"
            /\ UNCHANGED <<encoding, utf8Raised, convVars>>
    /\ UNCHANGED <<escVars, markdown_lines, row, idx, ret, envVars, outDir,
                   outFile, delimiter>>

\* lines 126-139
Convert_Loaded ==
    /\ pc = "loaded"
    /\ IF rows = <<>>
       THEN /\ printed' = "warning: empty"
            /\ result' = "None"
            /\ pc' = "main_exit"
            /\ UNCHANGED <<rows, markdown_content, output_filename>>
       ELSE /\ printed' = "loaded"
            /\ markdown_content' = ConvertToMarkdownTable(rows)
            /\ rows' = RowsAfterConvert(rows)
            /\ output_filename' = (IF Len(argv) > 2 THEN argv[3] ELSE StemMd(argv[2]))
            /\ pc' = "mkdir"
            /\ UNCHANGED result
    /\ UNCHANGED <<escVars, tblVars, envVars, outDir, outFile, readVars,
                   exc, raisedIn, propagated, exitCode>>

\* line 110: output_dir.mkdir(parents=True, exist_ok=True); creating a
\* missing directory can fail (permissions, read-only file system).
SaveMarkdown_Mkdir ==
    /\ pc = "mkdir"
    /\ \E ok \in BOOLEAN :
         /\ outDir => ok
         /\ IF ok
            THEN outDir' = TRUE /\ pc' = "open_out" /\ UNCHANGED convVars
            ELSE ReachConvert("OSError", "save_mkdir") /\ UNCHANGED outDir
    /\ UNCHANGED <<escVars, rows, tblVars, envVars, outFile, readVars>>

\* line 114: open(output_path, 'w', encoding='utf-8') creates the file or
\* truncates it to zero length; it can fail (permissions) and then leaves
\* the file alone.
SaveMarkdown_Open ==
    /\ pc = "open_out"
    /\ \E ok \in BOOLEAN :
         IF ok
         THEN /\ outFile' = [exists |-> TRUE, content |-> <<>>]
              /\ pc' = "write"
              /\ UNCHANGED convVars
         ELSE ReachConvert("OSError", "save_open") /\ UNCHANGED outFile
    /\ UNCHANGED <<escVars, rows, tblVars, envVars, outDir, readVars>>

\* lines 115-117, 144-145: file.write(markdown_content) and the close at the
\* end of the with block; when they fail (disk full, I/O error) the file
\* holds however much of the text reached it.
SaveMarkdown_Write ==
    /\ pc = "write"
    /\ \E ok \in BOOLEAN :
         IF ok
         THEN /\ outFile' = [exists |-> TRUE, content |-> markdown_content]
              /\ result' = output_filename
              /\ printed' = "done"
              /\ pc' = "main_exit"
              /\ UNCHANGED <<exc, raisedIn, propagated, markdown_content,
                             output_filename, exitCode>>
         ELSE /\ \E k \in 0..Len(markdown_content) :
                    outFile' = [exists |-> TRUE,
                                content |-> SubSeq(markdown_content, 1, k)]
              /\ ReachConvert("OSError", "save_write")
    /\ UNCHANGED <<escVars, rows, tblVars, envVars, outDir, readVars>>

\* lines 147-149
Convert_Except ==
    /\ pc = "except"
    /\ printed' = "error"
    /\ result' = "None"
    /\ pc' = "main_exit"
    /\ UNCHANGED <<escVars, rows, tblVars, envVars, outDir, outFile, readVars,
                   exc, raisedIn, propagated, markdown_content, output_filename,
                   exitCode>>

\* lines 167-170
Main_Exit ==
    /\ pc = "main_exit"
    /\ exitCode' = ExitStatus(result)
    /\ pc' = "exited"
    /\ UNCHANGED <<escVars, rows, tblVars, envVars, outDir, outFile, readVars,
                   exc, raisedIn, propagated, markdown_content, output_filename,
                   result, printed>>

Next ==
    \/ Main_Usage \/ Main_Convert
    \/ ReadCsv_NotFound \/ ReadCsv_Begin \/ ReadCsv_Open \/ ReadCsv_Sample
    \/ ReadCsv_Sniff \/ ReadCsv_Parse
    \/ Convert_Loaded
    \/ SaveMarkdown_Mkdir \/ SaveMarkdown_Open \/ SaveMarkdown_Write
    \/ Convert_Except
    \/ Main_Exit

Spec == Init /\ [][Next]_vars

(***************************************************************************)
(* Claims about escape_markdown_chars (SpecEscape)                         *)
(***************************************************************************)
NoNewline(t) == \A i \in 1..Len(t) : t[i] \notin {"\n", "\r"}
NoPipe(t) == \A i \in 1..Len(t) : t[i] # "|"
NoRawPipe(t) == \A i \in 1..Len(t) : t[i] = "|" => (i > 1 /\ t[i - 1] = "\\")

\* C3 as stated: on a text with no CR or LF in which every pipe is preceded
\* by a backslash, escaping the escaped text gives the escaped text again.
C3_IdempotentOnEscaped ==
    (pc = "esc_done" /\ NoNewline(text) /\ NoRawPipe(text)) => twice = once

\* C3 amended: on a text with no CR or LF, escaping the escaped text gives
\* the escaped text again exactly when the text holds no pipe at all; a pipe,
\* preceded by a backslash or not, gets one more backslash each time.
C3_IdempotentIffNoPipe ==
    (pc = "esc_done" /\ NoNewline(text)) => ((twice = once) <=> NoPipe(text))

\* C3 witness: a pipe-free text with a backslash that escaping changes, and
\* both applications done.
C3_Witness ==
    /\ pc = "esc_done"
    /\ NoNewline(text) /\ NoPipe(text)
    /\ \E i \in 1..Len(text) : text[i] = "\\"
    /\ once # text
    /\ twice = once

(***************************************************************************)
(* Claims about convert_to_markdown_table (SpecTable)                      *)
(***************************************************************************)
\* The cells a data row r is to be emitted with under a header of n fields.
NormalizedCells(r, n) == [i \in 1..n |-> IF i <= Len(r) THEN r[i] ELSE <<>>]

\* C1: the line emitted for each data row carries len(header) cells, cell i
\* being the escaped field i of the row where the row has one and the empty
\* text otherwise.
C1_DataRowNormalized ==
    (pc \in {"tbl_loop", "tbl_done"}) =>
        /\ \A j \in 2..Len(rows0) :
              j < idx =>
                markdown_lines[j + 1] =
                    Line(EscapeRow(NormalizedCells(rows0[j], Len(rows0[1]))))
        /\ idx > 2 =>
              /\ Len(row) = Len(rows0[1])
              /\ row = NormalizedCells(rows0[idx - 1], Len(rows0[1]))

\* C1 witness: a finished conversion of a Table with a data row shorter than
\* the header and a data row longer than it.
C1_Witness ==
    /\ pc = "tbl_done"
    /\ \E j \in 2..Len(rows0) : Len(rows0[j]) < Len(rows0[1])
    /\ \E j \in 2..Len(rows0) : Len(rows0[j]) > Len(rows0[1])

FieldCounts(t) == LET ls == Split(t, <<"\n">>) IN [i \in 1..Len(ls) |-> Len(Fields(ls[i]))]

\* C2 as stated: every line of the returned text of a non-empty Table has
\* len(header) fields, whatever the header width, zero included.
C2_FieldCountIsHeaderWidth ==
    (pc = "tbl_done" /\ rows0 # <<>>) =>
        \A i \in DOMAIN FieldCounts(ret) : FieldCounts(ret)[i] = Len(rows0[1])

\* C2 amended: every line of the returned text of a non-empty Table has
\* len(header) fields when the header has at least one field; under a header
\* of zero fields every line is "|  |" and has one (empty) field.
C2_FieldCountAmended ==
    (pc = "tbl_done" /\ rows0 # <<>>) =>
        \A i \in DOMAIN FieldCounts(ret) :
            /\ FieldCounts(ret)[i] = (IF Len(rows0[1]) = 0 THEN 1 ELSE Len(rows0[1]))
            /\ Len(rows0[1]) = 0 => Split(ret, <<"\n">>)[i] = <<"|", " ", " ", "|">>

\* C2 witness: a finished conversion under a header of two or more fields,
\* with a data row of another width, an empty cell and a cell holding a pipe.
C2_Witness ==
    /\ pc = "tbl_done"
    /\ Len(rows0) >= 2
    /\ Len(rows0[1]) >= 2
    /\ \E j \in 2..Len(rows0) : Len(rows0[j]) # Len(rows0[1])
    /\ \E j \in 1..Len(rows0) : \E i \in 1..Len(rows0[j]) : rows0[j][i] = <<>>
    /\ \E j \in 1..Len(rows0) : \E i \in 1..Len(rows0[j]) : ~NoPipe(rows0[j][i])

\* C9: a Table of n >= 1 rows gives n + 1 lines (header, separator, the data
\* rows in order) and no trailing newline; a Table of zero rows gives "".
C9_LineCount ==
    (pc = "tbl_done") =>
        IF rows0 = <<>> THEN ret = <<>>
        ELSE LET ls == Split(ret, <<"\n">>)
                 n == Len(rows0)
             IN  /\ Len(ls) = n + 1
                 /\ ls[1] = Line(EscapeRow(rows0[1]))
                 /\ ls[2] = Line(Separator(rows0[1]))
                 /\ \A j \in 2..n :
                       ls[j + 1] = Line(EscapeRow(NormalizedCells(rows0[j], Len(rows0[1]))))
                 /\ ret[Len(ret)] # "\n"

\* C9 witness: a finished conversion of a Table with data rows and a cell
\* holding a line feed.
C9_Witness ==
    /\ pc = "tbl_done"
    /\ Len(rows0) >= 3
    /\ \E j \in 1..Len(rows0) : \E i \in 1..Len(rows0[j]) : ~NoNewline(rows0[j][i])
    /\ Len(Split(ret, <<"\n">>)) = Len(rows0) + 1

\* C10 as stated: the caller's Table is as it was before the call.
C10_TableUnchanged ==
    (pc \in {"tbl_loop", "tbl_done"}) => rows = rows0

(***************************************************************************)
(* Claims about the run (Spec)                                             *)
(***************************************************************************)
\* The command line names an existing input file of zero bytes.
EmptyInput == Len(argv) >= 2 /\ file.exists /\ file.utf8 = EmptyView

\* The run had no rows to convert: the input was empty or read_csv returned
\* a Table of zero rows.
NothingToConvert == EmptyInput \/ (readOutcome = "returned" /\ rows0 = <<>>)

C5_EmptyFileReturnsEmptyTable ==
    EmptyInput =>
        /\ readOutcome # "raised"
        /\ readOutcome = "returned" => rows = <<>>
        /\ printed # "error"
        /\ pc = "exited" => printed = "warning: empty"

\* C6: no exception raised by read_csv or save_markdown leaves convert; each
\* is reported as an error and the process exits 1; the process exits 0 only
\* when convert returned the path of an output file it wrote.
C6_FailuresCaught ==
    /\ propagated = FALSE
    /\ (pc = "exited" /\ exc # "none") =>
          /\ exitCode = 1
          /\ printed = "error"
          /\ result = "None"
    /\ (pc = "exited" /\ exitCode = 0) =>
          /\ exc = "none"
          /\ result # "None" /\ result = output_filename
          /\ outFile = [exists |-> TRUE, content |-> markdown_content]

\* C6 witness: a file undecodable under both encodings; the process has
\* exited with status 1.
C6_Witness ==
    /\ pc = "exited"
    /\ exc = "UnicodeDecodeError" /\ raisedIn = "read_csv"
    /\ encoding = "shift_jis"
    /\ exitCode = 1

\* C7 as stated: when save_markdown fails with the output directory in place,
\* the output file holds the complete new text or is as it was before the run.
C7_NoPartialFile ==
    raisedIn \in {"save_open", "save_write"} =>
        \/ outFile = outFile0
        \/ outFile = [exists |-> TRUE, content |-> markdown_content]

Attempted(enc) == \E i \in 1..Len(trace) : trace[i] = <<enc, "open">>
AttemptTrace(enc) == SelectSeq(trace, LAMBDA e : e[1] = enc)
DecodeFails(v) == v.err = "sample" \/ (v.err = "rest" /\ v.delim # "none")

\* C8: the Shift-JIS attempt is made exactly when the UTF-8 attempt raised a
\* decoding error (in the sample or in the rest); it opens the file anew so
\* reads from the beginning, detects the delimiter again, and the returned
\* rows are those of the attempt that completed; a decoding error of the
\* Shift-JIS attempt leaves read_csv.
C8_EncodingFallback ==
    /\ encoding = "shift_jis" <=> utf8Raised = "UnicodeDecodeError"
    /\ Attempted("shift_jis") <=> (encoding = "shift_jis" /\ pc # "open")
    /\ readOutcome # "none" =>
          (Attempted("shift_jis") <=> (file.exists /\ DecodeFails(file.utf8)))
    /\ Attempted("shift_jis") =>
          /\ \E n \in 1..Len(trace) :
                /\ \A i \in 1..Len(trace) : (trace[i][1] = "utf-8") <=> (i < n)
                /\ trace[n] = <<"shift_jis", "open">>
          /\ Len(AttemptTrace("shift_jis")) >= 2 =>
                AttemptTrace("shift_jis")[2] = <<"shift_jis", "read", SampleSize>>
    /\ readOutcome = "returned" =>
          LET enc == IF Attempted("shift_jis") THEN "shift_jis" ELSE "utf-8"
          IN  /\ encoding = enc
              /\ delimiter = View(enc).delim
              /\ rows0 = View(enc).table
              /\ pc = "loaded" => rows = View(enc).table
              /\ AttemptTrace(enc) =
                    << <<enc, "open">>, <<enc, "read", SampleSize>>,
                       <<enc, "seek", 0>>, <<enc, "sniff">>,
                       <<enc, "parse", View(enc).delim>> >>
    /\ (readOutcome # "none" /\ Attempted("shift_jis") /\ DecodeFails(file.sjis)) =>
          /\ readOutcome = "raised"
          /\ exc = "UnicodeDecodeError"
          /\ raisedIn = "read_csv"

\* C8 witness: the UTF-8 attempt failed while parsing the rest of the file
\* and the Shift-JIS attempt returned rows, which differ from what UTF-8
\* decoding had given, under another delimiter.
C8_Witness ==
    /\ readOutcome = "returned"
    /\ encoding = "shift_jis"
    /\ file.utf8.err = "rest"
    /\ file.utf8.table # file.sjis.table
    /\ file.utf8.delim # file.sjis.delim
    /\ rows0 = file.sjis.table

====
